---- MODULE Spec2Model ----
(***************************************************************************)
(* split_dataset.py: reorganisation of a train/test image dataset into a   *)
(* train/validation/test tree.  The state is the filesystem (directories   *)
(* and regular files, by path), the arguments and locals of setup_dataset  *)
(* and of move_files_between_splits, and the position of the run.          *)
(*                                                                         *)
(* A path is a tuple <<root, split, class, name>> or a prefix of it.  File *)
(* names are the numbers 1..MaxFiles; the name 0 is a non-regular entry (a *)
(* subdirectory) of a class directory.                                     *)
(***************************************************************************)
EXTENDS Naturals, Integers, Sequences, FiniteSets, TLC

\* ---- bounds ----
MaxFiles == 2
MaxFaults == 1

\* ---- fixed vocabularies ----
Labels == {"A", "B"}
Roots == {"orig", "dest"}
Names == 1..MaxFiles
SubDirName == 0
\* ratio as numerator/denominator: 0, 0.2 (the value main passes), 0.5, 1.0 and 1.5
Ratios == {<<0, 1>>, <<1, 5>>, <<1, 2>>, <<1, 1>>, <<3, 2>>}
\* random_seed = 42 in main and as the default of both functions
DefaultSeed == 42
Seeds == {7, DefaultSeed}
RngMod == 8
RngStates == 0..(RngMod - 1)
Partial == <<"partial">>

VARIABLES
    original_path, target_path, val_from_test_ratio, random_seed,
    dirs, files, unreadable,
    dirs0, files0,
    pc, classes, result,
    pair, todo,
    rng, total_moved, ci, files_to_move, moved_to_val,
    seen, sampled, attempt, pairFailed, copyErr, skipped, faults,
    lists, prior, call, picked, snap

fsVars == <<dirs, files>>
argVars == <<original_path, target_path, val_from_test_ratio, random_seed, unreadable, dirs0, files0>>
copyVars == <<pair, todo, pairFailed, copyErr, skipped>>
moveVars == <<total_moved, ci, files_to_move, moved_to_val, seen, sampled, attempt>>
detVars == <<lists, prior, call, picked, snap>>
vars == <<original_path, target_path, val_from_test_ratio, random_seed,
          dirs, files, unreadable, dirs0, files0, pc, classes, result,
          pair, todo, rng, total_moved, ci, files_to_move, moved_to_val,
          seen, sampled, attempt, pairFailed, copyErr, skipped, faults,
          lists, prior, call, picked, snap>>

\* ---- generic helpers ----
Max(a, b) == IF a >= b THEN a ELSE b

Range(s) == {s[i] : i \in 1..Len(s)}

\* all orderings of a finite set: a directory listing comes in arbitrary order
Perms(S) == {s \in [1..Cardinality(S) -> S] : Range(s) = S}

Prefixes(p) == {SubSeq(p, 1, k) : k \in 1..Len(p)}

Parent(p) == SubSeq(p, 1, Len(p) - 1)

\* ---- filesystem primitives ----
join(p, n) == Append(p, n)

IsFile(fl, p) == p \in DOMAIN fl

IsDir(ds, p) == p \in ds

\* os.listdir(p): names of the entries of directory p
ListDir(ds, fl, p) == {q[Len(q)] : q \in {e \in ds \cup DOMAIN fl : Len(e) = Len(p) + 1 /\ Parent(e) = p}}

\* os.listdir raises when p is no directory or cannot be read
CanList(ds, p) == IsDir(ds, p) /\ p \notin unreadable

\* [f for f in os.listdir(d) if os.path.isfile(os.path.join(d, f))]
RegularFiles(ds, fl, p) == {n \in ListDir(ds, fl, p) : IsFile(fl, join(p, n))}

\* faulty variant of MakeDirsRaises: without exist_ok a directory that is there
\* raises too
MakeDirsRaisesNoExistOk(fl, p) == IsDir(dirs, p) \/ \E q \in Prefixes(p) : IsFile(fl, q)

\* os.makedirs(p, exist_ok=True) raises when p or one of its parents is a regular file
MakeDirsRaises(fl, p) == \E q \in Prefixes(p) : IsFile(fl, q)

MakeDirs(ds, p) == ds \cup Prefixes(p)

\* shutil.copy2(src, dst) raises on its own when src and dst are the same file,
\* when src is no regular file or when the directory of dst is missing
Copy2Raises(ds, fl, src, dst) == src = dst \/ ~IsFile(fl, src) \/ ~IsDir(ds, Parent(dst)) \/ IsDir(ds, dst)

Copy2(fl, src, dst) == [p \in DOMAIN fl \cup {dst} |-> IF p = dst THEN fl[src] ELSE fl[p]]

\* a copy interrupted after dst was created leaves a truncated dst
Copy2Torn(fl, dst) == [p \in DOMAIN fl \cup {dst} |-> IF p = dst THEN Partial ELSE fl[p]]

\* faulty variant of Remove: the file is left in place
RemoveKeeps(fl, p) == fl

Remove(fl, p) == [q \in DOMAIN fl \ {p} |-> fl[q]]

\* ---- the pseudo-random generator (module random) ----
\* faulty variant of SeedRng: the call does not reset the generator
SeedRngKeeps(old, a) == old

\* random.seed(a): the new state is a function of a alone, not of the old state
SeedRng(old, a) == a % RngMod

RngNext(s) == (5 * s + 3) % RngMod

\* random.sample(population, k) on a list of n entries: k times, draw j below the
\* number of entries left, take pool[j], move the last entry left into slot j
RECURSIVE SamplePool(_, _, _, _)
SamplePool(pool, n, k, s) ==
    IF k = 0 THEN [out |-> <<>>, rng |-> s]
    ELSE LET j == (s % n) + 1
             rest == SamplePool([pool EXCEPT ![j] = pool[n]], n - 1, k - 1, RngNext(s))
         IN [out |-> <<pool[j]>> \o rest.out, rng |-> rest.rng]

\* faulty variant of IntOf: one more than the truncation
IntOfPlusOne(num, den) == (num \div den) + 1

\* int(x) for x = num/den: truncation toward zero
IntOf(num, den) == IF num >= 0 THEN num \div den ELSE -((-num) \div den)

\* faulty variant of NumToMove: a ratio of 0 moves nothing
NumToMoveZeroOff(num_files, ratio) ==
    IF ratio[1] = 0 THEN 0 ELSE Max(1, IntOf(num_files * ratio[1], ratio[2]))

\* faulty variant of NumToMove: without the floor of one file
NumToMoveNoMin(num_files, ratio) == IntOf(num_files * ratio[1], ratio[2])

\* num_to_move = max(1, int(num_files * ratio))
NumToMove(num_files, ratio) == Max(1, IntOf(num_files * ratio[1], ratio[2]))

\* faulty variant of SelectFiles: a sample larger than the listing is cut to it
SelectFilesClamped(listing, s, ratio) ==
    LET num_files == Len(listing)
        num_to_move == NumToMove(num_files, ratio)
    IN IF num_files = 0 THEN [kind |-> "empty", out |-> <<>>, rng |-> s]
       ELSE LET r == SamplePool(listing, num_files, IF num_to_move > num_files THEN num_files ELSE num_to_move, s)
            IN [kind |-> "ok", out |-> r.out, rng |-> r.rng]

\* lines 37-46 on one class: the listing (in listing order), the generator state
\* and the ratio give "empty" (continue), "error" (random.sample raises ValueError,
\* nothing is drawn) or the sampled files and the next generator state
SelectFiles(listing, s, ratio) ==
    LET num_files == Len(listing)
        num_to_move == NumToMove(num_files, ratio)
    IN IF num_files = 0 THEN [kind |-> "empty", out |-> <<>>, rng |-> s]
       ELSE IF num_to_move > num_files THEN [kind |-> "error", out |-> <<>>, rng |-> s]
       ELSE LET r == SamplePool(listing, num_files, num_to_move, s)
            IN [kind |-> "ok", out |-> r.out, rng |-> r.rng]

\* ---- initial filesystems ----
Splits == <<"train", "validation", "test">>
CopySplits == <<"train", "test">>

\* one class of the original dataset: its entry under train (missing, a stray
\* regular file, a directory) and, for a directory, its directory under test
\* (missing, or holding n files).  A class directory holds its files (one under
\* train) and one subdirectory, which is no regular file.
ClassShapes ==
    {sh \in [train : {"none", "file", "dir"}, test : {"none", "dir"}, n : 0..MaxFiles] :
        /\ sh.train # "dir" => sh.test = "none"
        /\ sh.test = "none" => sh.n = 0}

NoClasses == [c \in Labels |-> [train |-> "none", test |-> "none", n |-> 0]]

OrigDirs(root, hasTrain, shape) ==
    {<<root>>}
    \cup (IF hasTrain THEN {<<root, "train">>} ELSE {})
    \cup {<<root, "train", c>> : c \in {l \in Labels : shape[l].train = "dir"}}
    \cup {<<root, "test">> : c \in {l \in Labels : shape[l].test = "dir"}}
    \cup {<<root, "test", c>> : c \in {l \in Labels : shape[l].test = "dir"}}
    \cup {<<root, "train", c, SubDirName>> : c \in {l \in Labels : shape[l].train = "dir"}}
    \cup {<<root, "test", c, SubDirName>> : c \in {l \in Labels : shape[l].test = "dir"}}

OrigFilePaths(root, shape) ==
    {<<root, "train", c>> : c \in {l \in Labels : shape[l].train = "file"}}
    \cup {<<root, "train", c, 1>> : c \in {l \in Labels : shape[l].train = "dir"}}
    \cup UNION {{<<root, "test", c, n>> : n \in 1..shape[c].n} : c \in Labels}

\* a destination left over from an earlier run
StaleDirs == {<<"dest">>, <<"dest", "validation">>, <<"dest", "validation", "A">>}
StaleFilePaths == {<<"dest", "validation", "A", 1>>}

\* every file starts holding its own content, named by the path it started at
OwnContent(paths) == [p \in paths |-> p]

Init ==
    /\ original_path = "orig"
    /\ target_path \in Roots
    /\ val_from_test_ratio \in Ratios
    /\ random_seed = DefaultSeed
    /\ \E trainKind \in {"none", "unreadable", "dir"}, stale \in BOOLEAN :
       \E shape \in IF trainKind = "dir" THEN [Labels -> ClassShapes] ELSE {NoClasses} :
          /\ stale => target_path = "dest"
          /\ unreadable = IF trainKind = "unreadable" THEN {<<"orig", "train">>} ELSE {}
          /\ dirs = OrigDirs("orig", trainKind # "none", shape)
                    \cup (IF stale THEN StaleDirs ELSE {})
          /\ files = OwnContent(OrigFilePaths("orig", shape)
                                \cup (IF stale THEN StaleFilePaths ELSE {}))
    /\ dirs0 = dirs
    /\ files0 = files
    /\ pc = "start"
    /\ classes = <<>>
    /\ result = "unset"
    /\ pair = 0
    /\ todo = {}
    /\ rng = 0
    /\ total_moved = 0
    /\ ci = 0
    /\ files_to_move = <<>>
    /\ moved_to_val = -1
    /\ seen = {}
    /\ sampled = {}
    /\ attempt = {}
    /\ pairFailed = {}
    /\ copyErr = {}
    /\ skipped = {}
    /\ faults = 0
    /\ lists = <<>>
    /\ prior = <<>>
    /\ call = 0
    /\ picked = <<>>
    /\ snap = {}

\* ---- setup_dataset ----
NumClasses == Len(classes)

\* a simulated environment failure (permissions, full disk) may hit an operation
\* that touches the disk, MaxFaults times in a run
MayFault == faults < MaxFaults

\* the directories create_directory_structure makes, in loop order
ScaffoldSeq ==
    [i \in 1..(3 * NumClasses) |->
        <<target_path, Splits[((i - 1) \div NumClasses) + 1], classes[((i - 1) % NumClasses) + 1]>>]

\* the (split, class) pair the copy loop is at
PairSplit == CopySplits[((pair - 1) \div NumClasses) + 1]
PairClass == classes[((pair - 1) % NumClasses) + 1]

\* end of one iteration of the copy loops: the next pair, or the call of
\* move_files_between_splits after the last one
NextPair ==
    IF pair < 2 * NumClasses
    THEN pair' = pair + 1 /\ pc' = "copy_list"
    ELSE pair' = pair /\ pc' = "mv_call"

\* classes = os.listdir(os.path.join(original_path, 'train'))
ListClassesOk ==
    /\ pc = "start"
    /\ CanList(dirs, <<original_path, "train">>)
    /\ \E order \in Perms(ListDir(dirs, files, <<original_path, "train">>)) : classes' = order
    /\ pc' = "scaffold"
    /\ UNCHANGED <<argVars, fsVars, result, copyVars, rng, moveVars, faults, detVars>>

\* faulty variant of ListClassesFail: the destination root is made before the listing
ListClassesFailAfterMkdir ==
    /\ pc = "start"
    /\ ~CanList(dirs, <<original_path, "train">>)
    /\ dirs' = MakeDirs(dirs, <<target_path>>)
    /\ result' = "False"
    /\ pc' = "done"
    /\ UNCHANGED <<argVars, files, classes, copyVars, rng, moveVars, faults, detVars>>

\* except Exception: log, return False
ListClassesFail ==
    /\ pc = "start"
    /\ ~CanList(dirs, <<original_path, "train">>)
    /\ result' = "False"
    /\ pc' = "done"
    /\ UNCHANGED <<argVars, fsVars, classes, copyVars, rng, moveVars, faults, detVars>>

\* create_directory_structure(target_path, classes), every os.makedirs succeeding
ScaffoldOk ==
    /\ pc = "scaffold"
    /\ \A i \in DOMAIN ScaffoldSeq : ~MakeDirsRaises(files, ScaffoldSeq[i])
    /\ dirs' = dirs \cup UNION {Prefixes(ScaffoldSeq[i]) : i \in DOMAIN ScaffoldSeq}
    /\ IF NumClasses = 0 THEN pc' = "mv_call" /\ pair' = pair
                         ELSE pc' = "copy_list" /\ pair' = 1
    /\ UNCHANGED <<argVars, files, classes, result, todo, pairFailed, copyErr, skipped, rng, moveVars, faults, detVars>>

\* the k-th os.makedirs raises (the path is taken by a regular file, or the
\* directory cannot be created); nothing catches it, setup_dataset is left by
\* the exception
ScaffoldRaise ==
    /\ pc = "scaffold"
    /\ \E k \in DOMAIN ScaffoldSeq :
        /\ \A i \in 1..(k - 1) : ~MakeDirsRaises(files, ScaffoldSeq[i])
        /\ \/ MakeDirsRaises(files, ScaffoldSeq[k]) /\ faults' = faults
           \/ /\ ~MakeDirsRaises(files, ScaffoldSeq[k])
              /\ ~IsDir(dirs, ScaffoldSeq[k])
              /\ MayFault
              /\ faults' = faults + 1
        /\ dirs' = dirs \cup UNION {Prefixes(ScaffoldSeq[i]) : i \in 1..(k - 1)}
    /\ pc' = "raised"
    /\ UNCHANGED <<argVars, files, classes, result, copyVars, rng, moveVars, detVars>>

\* files = [f for f in os.listdir(source_class_dir) if os.path.isfile(...)]
CopyListOk ==
    /\ pc = "copy_list"
    /\ CanList(dirs, <<original_path, PairSplit, PairClass>>)
    /\ LET found == RegularFiles(dirs, files, <<original_path, PairSplit, PairClass>>)
       IN IF found = {} THEN todo' = {} /\ NextPair
                        ELSE todo' = found /\ pc' = "copy_file" /\ pair' = pair
    /\ UNCHANGED <<argVars, fsVars, classes, result, pairFailed, copyErr, skipped, rng, moveVars, faults, detVars>>

\* faulty variant of CopyListFail: the except returns False
CopyListFailReturns ==
    /\ pc = "copy_list"
    /\ ~CanList(dirs, <<original_path, PairSplit, PairClass>>)
    /\ pairFailed' = pairFailed \cup {<<PairSplit, PairClass>>}
    /\ result' = "False"
    /\ pc' = "done"
    /\ UNCHANGED <<argVars, fsVars, classes, pair, todo, copyErr, skipped, rng, moveVars, faults, detVars>>

\* os.listdir raises: except Exception logs and the loops go on
CopyListFail ==
    /\ pc = "copy_list"
    /\ ~CanList(dirs, <<original_path, PairSplit, PairClass>>)
    /\ pairFailed' = pairFailed \cup {<<PairSplit, PairClass>>}
    /\ todo' = {}
    /\ NextPair
    /\ UNCHANGED <<argVars, fsVars, classes, result, copyErr, skipped, rng, moveVars, faults, detVars>>

\* shutil.copy2(source_file, target_file) for the next listed file
CopyFileOk ==
    /\ pc = "copy_file"
    /\ \E f \in todo :
        LET src == <<original_path, PairSplit, PairClass, f>>
            dst == <<target_path, PairSplit, PairClass, f>>
        IN /\ ~Copy2Raises(dirs, files, src, dst)
           /\ files' = Copy2(files, src, dst)
           /\ todo' = todo \ {f}
           /\ IF todo' = {} THEN NextPair ELSE pc' = "copy_file" /\ pair' = pair
    /\ UNCHANGED <<argVars, dirs, classes, result, pairFailed, copyErr, skipped, rng, moveVars, faults, detVars>>

\* faulty variant of CopyFileFail: the except is inside the file loop, the
\* remaining files of the pair are still copied
CopyFileFailGoesOn ==
    /\ pc = "copy_file"
    /\ \E f \in todo :
        /\ MayFault
        /\ faults' = faults + 1
        /\ copyErr' = copyErr \cup {<<PairSplit, PairClass, f>>}
        /\ todo' = todo \ {f}
        /\ IF todo' = {} THEN NextPair ELSE pc' = "copy_file" /\ pair' = pair
    /\ pairFailed' = pairFailed \cup {<<PairSplit, PairClass>>}
    /\ UNCHANGED <<argVars, fsVars, classes, result, skipped, rng, moveVars, detVars>>

\* shutil.copy2 raises: the except of the pair's try ends the pair
CopyFileFail ==
    /\ pc = "copy_file"
    /\ \E f \in todo :
        LET src == <<original_path, PairSplit, PairClass, f>>
            dst == <<target_path, PairSplit, PairClass, f>>
        IN /\ \/ Copy2Raises(dirs, files, src, dst) /\ files' = files /\ faults' = faults
              \/ /\ ~Copy2Raises(dirs, files, src, dst)
                 /\ MayFault
                 /\ faults' = faults + 1
                 /\ files' \in {files, Copy2Torn(files, dst)}
           /\ copyErr' = copyErr \cup {<<PairSplit, PairClass, f>>}
           /\ skipped' = skipped \cup {<<PairSplit, PairClass, g>> : g \in todo \ {f}}
    /\ pairFailed' = pairFailed \cup {<<PairSplit, PairClass>>}
    /\ todo' = {}
    /\ NextPair
    /\ UNCHANGED <<argVars, dirs, classes, result, rng, moveVars, detVars>>

\* ---- move_files_between_splits(target_path, target_path, 'test', 'validation', ...) ----
source_root == target_path
destination_root == target_path
\* faulty variant of source_split: validation is taken from train
source_split_train == "train"

source_split == "test"
target_split == "validation"
ratio == val_from_test_ratio

class_name == classes[ci]
source_dir == <<source_root, source_split, class_name>>

\* faulty variant of target_dir: the class of the first iteration is kept
target_dir_first_class == <<destination_root, target_split, classes[1]>>

target_dir == <<destination_root, target_split, class_name>>

\* for class_name in classes: the next class, or return total_moved after the last
NextClass ==
    IF ci < NumClasses
    THEN ci' = ci + 1 /\ pc' = "mv_class"
    ELSE ci' = ci /\ pc' = "mv_return"

\* faulty variant of NextFile: the per-file except is missing, the class-level except
\* takes the exception of a file and the rest of the class is skipped
NextFileLeavesClass ==
    /\ files_to_move' = Tail(files_to_move)
    /\ IF attempt' # attempt /\ \E a \in attempt' \ attempt : a[3] # "moved"
       THEN NextClass
       ELSE IF Tail(files_to_move) = <<>> THEN NextClass ELSE pc' = "mv_copy" /\ ci' = ci

\* for file in files_to_move: the next sampled file, or the next class
NextFile ==
    /\ files_to_move' = Tail(files_to_move)
    /\ IF Tail(files_to_move) = <<>> THEN NextClass ELSE pc' = "mv_copy" /\ ci' = ci

\* random.seed(random_seed); total_moved = 0
MoveBegin ==
    /\ pc = "mv_call"
    /\ rng' = SeedRng(rng, random_seed)
    /\ total_moved' = 0
    /\ IF NumClasses = 0 THEN pc' = "mv_return" /\ ci' = ci
                         ELSE pc' = "mv_class" /\ ci' = 1
    /\ UNCHANGED <<argVars, fsVars, classes, result, copyVars, files_to_move, moved_to_val,
                   seen, sampled, attempt, faults, detVars>>

\* os.makedirs(target_dir), the listing, and a non-empty sample of it
MoveClassSample ==
    /\ pc = "mv_class"
    /\ ~MakeDirsRaises(files, target_dir)
    /\ CanList(dirs, source_dir)
    /\ \E listing \in Perms(RegularFiles(dirs, files, source_dir)) :
        LET sel == SelectFiles(listing, rng, ratio)
        IN /\ sel.kind = "ok"
           /\ files_to_move' = sel.out
           /\ rng' = sel.rng
           /\ seen' = seen \cup {<<class_name, Len(listing)>>}
           /\ sampled' = sampled \cup {<<class_name, f>> : f \in Range(sel.out)}
           /\ IF sel.out = <<>> THEN NextClass ELSE pc' = "mv_copy" /\ ci' = ci
    /\ dirs' = MakeDirs(dirs, target_dir)
    /\ UNCHANGED <<argVars, files, classes, result, copyVars, total_moved, moved_to_val,
                   attempt, faults, detVars>>

\* the class gives nothing to move: the listing is empty (continue), or the
\* listing or random.sample raises and the except of the class's try logs it;
\* an os.makedirs that raises is outside the try and leaves the function
MoveClassSkip ==
    /\ pc = "mv_class"
    /\ IF MakeDirsRaises(files, target_dir)
       THEN pc' = "raised" /\ UNCHANGED <<dirs, ci, seen>>
       ELSE /\ dirs' = MakeDirs(dirs, target_dir)
            /\ IF ~CanList(dirs, source_dir)
               THEN seen' = seen
               ELSE /\ \E listing \in Perms(RegularFiles(dirs, files, source_dir)) :
                         SelectFiles(listing, rng, ratio).kind \in {"empty", "error"}
                    /\ seen' = seen \cup {<<class_name, Cardinality(RegularFiles(dirs, files, source_dir))>>}
            /\ NextClass
    /\ UNCHANGED <<argVars, files, classes, result, copyVars, rng, total_moved, files_to_move,
                   moved_to_val, sampled, attempt, faults, detVars>>

file == Head(files_to_move)
source_path == join(source_dir, file)
dest_path == join(target_dir, file)

\* faulty variant of MoveCopyOk: the copy is reported done but writes nothing
MoveCopyOkNoCopy ==
    /\ pc = "mv_copy"
    /\ ~Copy2Raises(dirs, files, source_path, dest_path)
    /\ pc' = "mv_remove"
    /\ UNCHANGED <<argVars, fsVars, classes, result, copyVars, rng, moveVars, faults, detVars>>

\* shutil.copy2(source_path, dest_path) succeeds; os.remove comes next
MoveCopyOk ==
    /\ pc = "mv_copy"
    /\ ~Copy2Raises(dirs, files, source_path, dest_path)
    /\ files' = Copy2(files, source_path, dest_path)
    /\ pc' = "mv_remove"
    /\ UNCHANGED <<argVars, dirs, classes, result, copyVars, rng, moveVars, faults, detVars>>

\* faulty variant of MoveCopyFail: delete-then-copy order, the source is already gone
\* when the copy raises
MoveCopyFailSourceGone ==
    /\ pc = "mv_copy"
    /\ ~Copy2Raises(dirs, files, source_path, dest_path)
    /\ MayFault
    /\ faults' = faults + 1
    /\ files' = Remove(files, source_path)
    /\ attempt' = attempt \cup {<<class_name, file, "copy_failed">>}
    /\ NextFile
    /\ UNCHANGED <<argVars, dirs, classes, result, copyVars, rng, total_moved, moved_to_val,
                   seen, sampled, detVars>>

\* shutil.copy2 raises: except Exception logs "Failed to move", os.remove is
\* skipped, the loop goes on with the next sampled file
MoveCopyFail ==
    /\ pc = "mv_copy"
    /\ \/ Copy2Raises(dirs, files, source_path, dest_path) /\ files' = files /\ faults' = faults
       \/ /\ ~Copy2Raises(dirs, files, source_path, dest_path)
          /\ MayFault
          /\ faults' = faults + 1
          /\ files' \in {files, Copy2Torn(files, dest_path)}
    /\ attempt' = attempt \cup {<<class_name, file, "copy_failed">>}
    /\ NextFile
    /\ UNCHANGED <<argVars, dirs, classes, result, copyVars, rng, total_moved, moved_to_val,
                   seen, sampled, detVars>>

\* os.remove(source_path) succeeds; total_moved += 1
MoveRemoveOk ==
    /\ pc = "mv_remove"
    /\ IsFile(files, source_path)
    /\ files' = Remove(files, source_path)
    /\ total_moved' = total_moved + 1
    /\ attempt' = attempt \cup {<<class_name, file, "moved">>}
    /\ NextFile
    /\ UNCHANGED <<argVars, dirs, classes, result, copyVars, rng, moved_to_val, seen, sampled,
                   faults, detVars>>

\* faulty variant of MoveRemoveFail: total_moved is incremented before os.remove
MoveRemoveFailCounted ==
    /\ pc = "mv_remove"
    /\ IsFile(files, source_path)
    /\ MayFault
    /\ faults' = faults + 1
    /\ total_moved' = total_moved + 1
    /\ attempt' = attempt \cup {<<class_name, file, "remove_failed">>}
    /\ NextFile
    /\ UNCHANGED <<argVars, fsVars, classes, result, copyVars, rng, moved_to_val,
                   seen, sampled, detVars>>

\* os.remove raises: except Exception logs, total_moved is not incremented
MoveRemoveFail ==
    /\ pc = "mv_remove"
    /\ \/ ~IsFile(files, source_path) /\ faults' = faults
       \/ IsFile(files, source_path) /\ MayFault /\ faults' = faults + 1
    /\ attempt' = attempt \cup {<<class_name, file, "remove_failed">>}
    /\ NextFile
    /\ UNCHANGED <<argVars, fsVars, classes, result, copyVars, rng, total_moved, moved_to_val,
                   seen, sampled, detVars>>

\* return total_moved; setup_dataset logs it and returns True
MoveReturn ==
    /\ pc = "mv_return"
    /\ moved_to_val' = total_moved
    /\ result' = "True"
    /\ pc' = "done"
    /\ UNCHANGED <<argVars, fsVars, classes, copyVars, rng, total_moved, ci, files_to_move,
                   seen, sampled, attempt, faults, detVars>>

Next ==
    \/ ListClassesOk
    \/ ListClassesFail
    \/ ScaffoldOk
    \/ ScaffoldRaise
    \/ CopyListOk
    \/ CopyListFail
    \/ CopyFileOk
    \/ CopyFileFail
    \/ MoveBegin
    \/ MoveClassSample
    \/ MoveClassSkip
    \/ MoveCopyOk
    \/ MoveCopyFail
    \/ MoveRemoveOk
    \/ MoveRemoveFail
    \/ MoveReturn

Spec == Init /\ [][Next]_vars

\* ---- vocabulary of the properties ----
Returned == pc = "done" /\ result = "True"

\* the destination root holds nothing when setup_dataset starts
DestEmptyAtStart == \A p \in dirs0 \cup DOMAIN files0 : Len(p) >= 2 => p[1] # target_path

\* no shutil.copy2 and no os.remove has raised
NoPerFileFailure == copyErr = {} /\ \A a \in attempt : a[3] = "moved"

CountFiles(ds, fl, p) == Cardinality(RegularFiles(ds, fl, p))

InSource(c, f) == IsFile(files, <<source_root, source_split, c, f>>)
InTarget(c, f) == IsFile(files, <<destination_root, target_split, c, f>>)

RatioPositive == ratio[1] > 0
RatioAtMostOne == ratio[1] <= ratio[2]

\* C1 (conservation): after a complete run from an empty destination in which no
\* per-file copy or delete failed, for every class label the regular files of
\* destination test plus those of destination validation are as many as the
\* regular files of original test.
Conservation ==
    (pc = "done" /\ DestEmptyAtStart /\ NoPerFileFailure) =>
        \A c \in Range(classes) :
            CountFiles(dirs, files, <<target_path, "test", c>>)
                + CountFiles(dirs, files, <<target_path, "validation", c>>)
            = CountFiles(dirs0, files0, <<original_path, "test", c>>)

\* a complete clean run that left files of one class in test and in validation
ConservationWitness ==
    /\ Returned /\ DestEmptyAtStart /\ NoPerFileFailure
    /\ \E c \in Range(classes) :
        /\ CountFiles(dirs, files, <<target_path, "test", c>>) >= 1
        /\ CountFiles(dirs, files, <<target_path, "validation", c>>) >= 1

\* C2 (non-loss): in every state, also between the copy and the delete of a file
\* and after a failed copy or delete, every file sampled for relocation is in its
\* source directory or in its target directory, and a file whose copy failed is
\* still in its source directory.
NonLoss ==
    /\ \A sf \in sampled : InSource(sf[1], sf[2]) \/ InTarget(sf[1], sf[2])
    /\ \A a \in attempt : a[3] = "copy_failed" => InSource(a[1], a[2])

\* one sampled file's copy has failed and another is between its copy and its delete
NonLossWitness ==
    /\ pc = "mv_remove"
    /\ \E a \in attempt : a[3] = "copy_failed"

\* C3 as stated: once its relocation was attempted a sampled file is in exactly
\* one of source and target, only in the target after a success, only in the
\* source after a failed copy, never in both.
ExactlyOneAfterAttempt ==
    \A a \in attempt :
        /\ InSource(a[1], a[2]) # InTarget(a[1], a[2])
        /\ a[3] = "moved" => InTarget(a[1], a[2])
        /\ a[3] = "copy_failed" => InSource(a[1], a[2])

\* C3 (amended): once its relocation was attempted a sampled file is only in the
\* target when copy and delete both succeeded, still in the source when the copy
\* failed, and in both source and target when the copy succeeded and the delete
\* failed.
PlaceAfterAttempt ==
    \A a \in attempt :
        /\ a[3] = "moved" => InTarget(a[1], a[2]) /\ ~InSource(a[1], a[2])
        /\ a[3] = "copy_failed" => InSource(a[1], a[2])
        /\ a[3] = "remove_failed" => InSource(a[1], a[2]) /\ InTarget(a[1], a[2])

\* a delete has failed and another file was relocated
PlaceAfterAttemptWitness ==
    /\ \E a \in attempt : a[3] = "remove_failed"
    /\ \E a \in attempt : a[3] = "moved"

\* some file of class c was relocated
Relocated(c) == \E a \in attempt : a[1] = c /\ a[3] = "moved" /\ InTarget(c, a[2]) /\ ~InSource(c, a[2])

\* C4 as stated: with no per-file failure, every class whose source directory
\* held at least one regular file has a file relocated, for every ratio r > 0.
MinimumOneAnyRatio ==
    (Returned /\ NoPerFileFailure /\ RatioPositive) =>
        \A sn \in seen : sn[2] >= 1 => Relocated(sn[1])

\* C4 (amended): the same for every ratio 0 < r <= 1, also when floor(num_files * r)
\* is 0.
MinimumOne ==
    (Returned /\ NoPerFileFailure /\ RatioPositive /\ RatioAtMostOne) =>
        \A sn \in seen : sn[2] >= 1 => Relocated(sn[1])

\* a clean run with a class of num_files >= 1 where floor(num_files * r) = 0
MinimumOneWitness ==
    /\ Returned /\ NoPerFileFailure /\ RatioPositive /\ RatioAtMostOne
    /\ \E sn \in seen :
        /\ sn[2] >= 1
        /\ IntOf(sn[2] * ratio[1], ratio[2]) = 0
        /\ Relocated(sn[1])

\* ---- two invocations of move_files_between_splits on the same inputs ----
\* What the selection reads is the seed, the class-label sequence, the listing of
\* each class's source directory and the ratio; InitDet draws them, and the state
\* prior[k] the generator is in before invocation k.  picked[k] is the sequence of
\* files_to_move of invocation k, class by class.
Listings == UNION {Perms(1..n) : n \in 0..MaxFiles}

InitDet ==
    /\ original_path = "orig"
    /\ target_path = "dest"
    /\ val_from_test_ratio \in Ratios
    /\ random_seed \in Seeds
    /\ unreadable = {}
    /\ dirs = {}
    /\ files = OwnContent({})
    /\ dirs0 = dirs
    /\ files0 = files
    /\ pc = "det_call"
    /\ classes = <<"A", "B">>
    /\ result = "unset"
    /\ pair = 0
    /\ todo = {}
    /\ rng = 0
    /\ total_moved = 0
    /\ ci = 0
    /\ files_to_move = <<>>
    /\ moved_to_val = -1
    /\ seen = {}
    /\ sampled = {}
    /\ attempt = {}
    /\ pairFailed = {}
    /\ copyErr = {}
    /\ skipped = {}
    /\ faults = 0
    /\ lists \in [1..2 -> Listings]
    /\ prior \in [1..2 -> RngStates]
    /\ call = 1
    /\ picked = <<<<>>, <<>>>>
    /\ snap = {}

detFrame == <<argVars, fsVars, classes, result, copyVars, total_moved, files_to_move, moved_to_val,
              seen, sampled, attempt, faults, lists, prior, snap>>

\* random.seed(random_seed) at the start of invocation `call`
DetSeed ==
    /\ pc = "det_call"
    /\ rng' = SeedRng(prior[call], random_seed)
    /\ ci' = 1
    /\ pc' = "det_class"
    /\ UNCHANGED <<detFrame, call, picked>>

\* one class of the loop: the listing, num_to_move, random.sample
DetClass ==
    /\ pc = "det_class"
    /\ LET sel == SelectFiles(lists[ci], rng, ratio)
       IN /\ rng' = sel.rng
          /\ picked' = [picked EXCEPT ![call] = Append(@, sel.out)]
    /\ IF ci < NumClasses THEN ci' = ci + 1 /\ pc' = "det_class"
                          ELSE ci' = ci /\ pc' = "det_return"
    /\ UNCHANGED <<detFrame, call>>

\* return of the first invocation; the second one follows
DetReturnFirst ==
    /\ pc = "det_return"
    /\ call = 1
    /\ call' = 2
    /\ pc' = "det_call"
    /\ UNCHANGED <<detFrame, rng, ci, picked>>

\* return of the second invocation
DetReturnSecond ==
    /\ pc = "det_return"
    /\ call = 2
    /\ pc' = "det_done"
    /\ UNCHANGED <<detFrame, rng, ci, picked, call>>

NextDet ==
    \/ DetSeed
    \/ DetClass
    \/ DetReturnFirst
    \/ DetReturnSecond

SpecDet == InitDet /\ [][NextDet]_vars

\* C5 (determinism): two invocations with the same seed, the same class-label
\* sequence and the same per-class listings select the same files in every class,
\* whatever state the generator was in before each of them.
Determinism == pc = "det_done" => picked[1] = picked[2]

\* both invocations are over, the generator started them in different states, and
\* a class had a proper subset of its files sampled
DeterminismWitness ==
    /\ pc = "det_done"
    /\ prior[1] # prior[2]
    /\ prior[1] # SeedRng(prior[1], random_seed)
    /\ \E i \in 1..2 : Len(picked[1][i]) >= 1 /\ Len(picked[1][i]) < Len(lists[i])

\* ---- properties of the run of setup_dataset, continued ----
\* C6: throughout every run, for all original_path and target_path, no file under
\* the original root is deleted or modified.
OriginalReadOnly ==
    \A p \in DOMAIN files0 :
        p[1] = original_path => IsFile(files, p) /\ files[p] = files0[p]

TrainListable == CanList(dirs0, <<original_path, "train">>)

\* C7: when the original train directory is missing or unreadable, setup_dataset
\* returns False before anything of the filesystem has changed: the run is at its
\* start or over with result False, and directories and files are as at the start.
AbortBeforeMutation ==
    ~TrainListable =>
        /\ pc \in {"start", "done"}
        /\ pc = "done" => result = "False"
        /\ dirs = dirs0
        /\ files = files0

\* the run is over with False on a filesystem that has a destination
AbortBeforeMutationWitness ==
    /\ pc = "done"
    /\ result = "False"
    /\ ~TrainListable
    /\ StaleDirs \subseteq dirs

Attempted(c, f) == \E a \in attempt : a[1] = c /\ a[2] = f

FailedAttempts == {a \in attempt : a[3] # "moved"}

\* C8: a failing copy or delete of a sampled file stops nothing: the function is
\* never left by an exception once a file was sampled, while it runs every sampled
\* file of the classes already left was attempted, and when it has returned every
\* class was listed, every sampled file was attempted and the count is set.
FailureIsolation ==
    /\ pc = "raised" => sampled = {}
    /\ pc \in {"mv_class", "mv_copy", "mv_remove", "mv_return"} =>
          \A sf \in sampled :
              (Attempted(sf[1], sf[2]) \/ (pc \in {"mv_copy", "mv_remove"} /\ sf[1] = class_name
                                           /\ sf[2] \in Range(files_to_move)))
    /\ Returned =>
          /\ \A c \in Range(classes) : \E sn \in seen : sn[1] = c
          /\ \A sf \in sampled : Attempted(sf[1], sf[2])
          /\ moved_to_val = total_moved
          /\ moved_to_val >= 0

\* the function has returned, a file of the first class failed, and a file of the
\* class after it was relocated
FailureIsolationWitness ==
    /\ Returned
    /\ NumClasses = 2
    /\ \E a \in FailedAttempts : a[1] = classes[1]
    /\ \E a \in attempt : a[1] = classes[2] /\ a[3] = "moved"

CopyPairs == {<<sp, c>> : sp \in Range(CopySplits), c \in Range(classes)}

\* every regular file of the original (split, class) directory is in the
\* destination directory of the pair, with its content
PairCopied(sp, c) ==
    \A f \in RegularFiles(dirs0, files0, <<original_path, sp, c>>) :
        /\ IsFile(files, <<target_path, sp, c, f>>)
        /\ files[<<target_path, sp, c, f>>] = files0[<<original_path, sp, c, f>>]

\* C9: a (split, class) pair whose copy fails stops nothing: when the copy loops
\* are over every pair that did not fail has all its regular files copied, no
\* exception leaves setup_dataset after a pair has failed, and the run ends with
\* the reassignment done over every class and with True.
ReplicatorIsolation ==
    /\ pc = "mv_call" => \A sc \in CopyPairs \ pairFailed : PairCopied(sc[1], sc[2])
    /\ pc = "raised" => pairFailed = {}
    /\ (pc = "done" /\ pairFailed # {}) =>
          /\ result = "True"
          /\ moved_to_val = total_moved
          /\ \A c \in Range(classes) : \E sn \in seen : sn[1] = c

\* the run is over with True, the original directory of one pair was missing,
\* another test pair was copied and a file of it was relocated
ReplicatorIsolationWitness ==
    /\ Returned
    /\ \E sc \in pairFailed : ~IsDir(dirs0, <<original_path, sc[1], sc[2]>>)
    /\ \E a \in attempt : a[3] = "moved" /\ <<"test", a[1]>> \notin pairFailed

\* C10: the value returned by move_files_between_splits is the number of sampled
\* files that are in their target directory and not in their source directory,
\* which is the number of files whose copy and delete both succeeded.
ReturnedCount ==
    Returned =>
        /\ moved_to_val = Cardinality({sf \in sampled : InTarget(sf[1], sf[2]) /\ ~InSource(sf[1], sf[2])})
        /\ moved_to_val = Cardinality({a \in attempt : a[3] = "moved"})

\* the function has returned a count of at least one and a copy or delete failed
ReturnedCountWitness ==
    /\ Returned
    /\ moved_to_val >= 1
    /\ FailedAttempts # {}

\* ---- properties of the run of setup_dataset, class enumeration and scaffolding ----
\* C11: the class labels are exactly the immediate subdirectories of the original
\* train directory; an entry of train that is no directory is no class label and
\* gets no destination directory.
ClassesAreDirectories ==
    /\ \A c \in Range(classes) : IsDir(dirs0, <<original_path, "train", c>>)
    /\ \A c \in Labels : ~IsDir(dirs0, <<original_path, "train", c>>) =>
          \A i \in 1..3 : IsDir(dirs, <<target_path, Splits[i], c>>) => IsDir(dirs0, <<target_path, Splits[i], c>>)

\* the file the content of a destination file has to come from: the file of the
\* same class and name in the original split, test for validation
OriginOf(p) == <<original_path, IF p[2] = "validation" THEN "test" ELSE p[2], p[3], p[4]>>

\* C13: from an empty destination, in every state, each file of destination
\* validation/c was sampled for class c and carries the name and the content of a
\* file of original test/c, and every file of the destination is a copy (whole
\* or truncated) of the original file of its class and name: no stage makes
\* another file and no file changes class.
ValidationFromTest ==
    DestEmptyAtStart =>
        /\ \A c \in Labels : \A f \in RegularFiles(dirs, files, <<target_path, "validation", c>>) :
              /\ <<c, f>> \in sampled
              /\ IsFile(files0, <<original_path, "test", c, f>>)
        /\ \A p \in DOMAIN files : (p[1] = target_path /\ p \notin DOMAIN files0) =>
              /\ Len(p) = 4
              /\ IsFile(files0, OriginOf(p))
              /\ files[p] \in {files0[OriginOf(p)], Partial}

\* a run from an empty destination is over with a file in validation
ValidationFromTestWitness ==
    /\ Returned
    /\ DestEmptyAtStart
    /\ \E c \in Labels : RegularFiles(dirs, files, <<target_path, "validation", c>>) # {}

\* C14: no failure of the scaffolder is fatal: setup_dataset is never left by an
\* exception, it goes on and returns a boolean.
ScaffolderNeverFatal == pc # "raised"

\* ---- properties of the reassignment, counts ----
MovedOf(c) == {a \in attempt : a[1] = c /\ a[3] = "moved"}

\* max(1, floor(n * r)) for n >= 1, and 0 for an empty directory
ExpectedMoves(n, r) ==
    IF n = 0 THEN 0
    ELSE IF n * r[1] < r[2] THEN 1
    ELSE (n * r[1]) \div r[2]

AllClassesSeen == \A c \in Range(classes) : \E sn \in seen : sn[1] = c

\* C15: for a ratio in (0, 1] and no per-file failure, a class with n regular
\* source files has 0 files relocated when n = 0 and max(1, floor(n * r)) distinct
\* files when n >= 1, n minus that number stay in the source, and the classes
\* after an empty one are processed; with r = 0.2, 10 files give 2 and 3 files
\* give 1.
RelocationCount ==
    /\ NumToMove(10, <<1, 5>>) = 2
    /\ NumToMove(3, <<1, 5>>) = 1
    /\ (Returned /\ NoPerFileFailure /\ RatioPositive /\ RatioAtMostOne) =>
          /\ AllClassesSeen
          /\ \A sn \in seen :
                /\ Cardinality(MovedOf(sn[1])) = ExpectedMoves(sn[2], ratio)
                /\ \A a \in MovedOf(sn[1]) : InTarget(a[1], a[2]) /\ ~InSource(a[1], a[2])
                /\ CountFiles(dirs, files, <<source_root, source_split, sn[1]>>)
                      = sn[2] - ExpectedMoves(sn[2], ratio)

\* a clean run with ratio 0.5: an empty class first, then a class of two files of
\* which floor(2 * 0.5) = 1 was relocated
RelocationCountWitness ==
    /\ Returned /\ NoPerFileFailure
    /\ ratio = <<1, 2>>
    /\ NumClasses = 2
    /\ <<classes[1], 0>> \in seen
    /\ <<classes[2], 2>> \in seen
    /\ Cardinality(MovedOf(classes[2])) = 1

MoverPcs == {"mv_call", "mv_class", "mv_copy", "mv_remove", "mv_return"}

\* the files under destination train, with their content
TrainFiles(fl) == [p \in {q \in DOMAIN fl : Len(q) >= 2 /\ q[1] = target_path /\ q[2] = "train"} |-> fl[p]]

TrainDirs(ds) == {q \in ds : Len(q) >= 2 /\ q[1] = target_path /\ q[2] = "train"}

\* C16: no step of the reassignment changes a file or a directory under
\* destination train, whatever fails in it, and after the run every destination
\* train/c whose copy did not fail holds exactly the regular files of original
\* train/c, with their content.
TrainUntouched ==
    /\ [][(pc \in MoverPcs) =>
             (TrainFiles(files') = TrainFiles(files) /\ TrainDirs(dirs') = TrainDirs(dirs))]_vars
    /\ [](Returned =>
            \A c \in Range(classes) : <<"train", c>> \notin pairFailed =>
                /\ RegularFiles(dirs, files, <<target_path, "train", c>>)
                      = RegularFiles(dirs0, files0, <<original_path, "train", c>>)
                /\ PairCopied("train", c))

\* a run into another root is over, a file was relocated, the copy or delete of
\* another failed, and a destination train directory holds its file
TrainUntouchedWitness ==
    /\ Returned
    /\ target_path # original_path
    /\ FailedAttempts # {}
    /\ \E a \in attempt : a[3] = "moved"
    /\ \E c \in Range(classes) : CountFiles(dirs, files, <<target_path, "train", c>>) >= 1

\* the sample asked of a class of n files is larger than n
Oversampled(n) == n >= 1 /\ (n * ratio[1]) \div ratio[2] > n

\* C17: when the ratio is above 1 and max(1, floor(n * ratio)) exceeds the n files
\* of a class, no file of the class is sampled, attempted or relocated, its source
\* directory keeps its n files, the count does not grow for it, and the function
\* goes on with the remaining classes and returns.
OversampleSkipsClass ==
    /\ \A sn \in seen : Oversampled(sn[2]) =>
          /\ \A sf \in sampled : sf[1] # sn[1]
          /\ \A a \in attempt : a[1] # sn[1]
          /\ CountFiles(dirs, files, <<source_root, source_split, sn[1]>>) = sn[2]
    /\ Returned =>
          /\ AllClassesSeen
          /\ moved_to_val = Cardinality({a \in attempt : a[3] = "moved" /\ ~\E sn \in seen : sn[1] = a[1] /\ Oversampled(sn[2])})

\* the function has returned, the first class was oversampled and a file of the
\* class after it was relocated
OversampleSkipsClassWitness ==
    /\ Returned
    /\ NumClasses = 2
    /\ \E sn \in seen : sn[1] = classes[1] /\ Oversampled(sn[2])
    /\ MovedOf(classes[2]) # {}

\* C18: a copy that fails in the bulk copy ends its (split, class) pair: the loop
\* leaves the pair at once, the files listed after the failed one are never
\* copied to the destination, the files listed before it stay copied, and the
\* other pairs are copied in full.
CopyFailureEndsPair ==
    /\ [][(pc = "copy_file" /\ copyErr' # copyErr) =>
             (todo' = {} /\ (pair' # pair \/ pc' = "mv_call"))]_vars
    /\ [](target_path # original_path =>
             \A sk \in skipped : ~IsFile(files, <<target_path, sk[1], sk[2], sk[3]>>))
    /\ [](\A e \in copyErr :
             \A g \in RegularFiles(dirs0, files0, <<original_path, e[1], e[2]>>) :
                 (g # e[3] /\ <<e[1], e[2], g>> \notin skipped) =>
                     \/ IsFile(files, <<target_path, e[1], e[2], g>>)
                     \/ e[1] = "test" /\ <<e[2], g>> \in sampled)
    /\ [](pc = "mv_call" => \A sc \in CopyPairs \ pairFailed : PairCopied(sc[1], sc[2]))

\* the run is over, a copy failed with a file of its pair left uncopied, and a
\* file of another class was copied and relocated
CopyFailureEndsPairWitness ==
    /\ Returned
    /\ target_path # original_path
    /\ \E sk \in skipped : \E a \in attempt : a[3] = "moved" /\ a[1] # sk[2]

TwiceClassLists == UNION {Perms(S) : S \in SUBSET Labels}

\* destination trees before the first call: missing, empty, left over from an
\* earlier run, with a regular file where a class directory goes, and complete
\* for one class
TwiceDests ==
    { [d |-> {}, f |-> {}],
      [d |-> {<<"dest">>}, f |-> {}],
      [d |-> StaleDirs, f |-> StaleFilePaths],
      [d |-> {<<"dest">>, <<"dest", "test">>}, f |-> {<<"dest", "test", "B">>}],
      [d |-> UNION {Prefixes(<<"dest", Splits[i], "A">>) : i \in 1..3},
       f |-> {<<"dest", "train", "A", 1>>}] }

InitTwice ==
    /\ original_path = "orig"
    /\ target_path = "dest"
    /\ val_from_test_ratio = <<1, 5>>
    /\ random_seed = DefaultSeed
    /\ unreadable = {}
    /\ \E t \in TwiceDests :
          /\ dirs = t.d
          /\ files = OwnContent(t.f)
    /\ dirs0 = dirs
    /\ files0 = files
    /\ pc = "tw_call"
    /\ classes \in TwiceClassLists
    /\ result = "unset"
    /\ pair = 0
    /\ todo = {}
    /\ rng = 0
    /\ total_moved = 0
    /\ ci = 0
    /\ files_to_move = <<>>
    /\ moved_to_val = -1
    /\ seen = {}
    /\ sampled = {}
    /\ attempt = {}
    /\ pairFailed = {}
    /\ copyErr = {}
    /\ skipped = {}
    /\ faults = 0
    /\ lists = <<<<>>, <<>>>>
    /\ prior = <<0, 0>>
    /\ call = 1
    /\ picked = <<<<>>, <<>>>>
    /\ snap = {}

twiceFrame == <<argVars, files, classes, result, todo, pairFailed,
                copyErr, skipped, rng, moveVars, lists, prior, picked>>

\* entry of invocation `call`: the loops start, or are empty without classes
TwiceCall ==
    /\ pc = "tw_call"
    /\ pair' = 1
    /\ pc' = IF NumClasses = 0 THEN "tw_return" ELSE "tw_mkdir"
    /\ UNCHANGED <<twiceFrame, dirs, faults, call, snap>>

\* os.makedirs(folder_path, exist_ok=True) makes the directory and its missing
\* parents, or finds the directory there
TwiceMakeDir ==
    /\ pc = "tw_mkdir"
    /\ ~MakeDirsRaises(files, ScaffoldSeq[pair])
    /\ dirs' = MakeDirs(dirs, ScaffoldSeq[pair])
    /\ IF pair < Len(ScaffoldSeq) THEN pair' = pair + 1 /\ pc' = "tw_mkdir"
                                  ELSE pair' = pair /\ pc' = "tw_return"
    /\ UNCHANGED <<twiceFrame, faults, call, snap>>

\* os.makedirs raises: the path is taken by a regular file, or a directory that
\* is not there cannot be made; the call is left by the exception
TwiceMakeDirRaise ==
    /\ pc = "tw_mkdir"
    /\ \/ MakeDirsRaises(files, ScaffoldSeq[pair]) /\ faults' = faults
       \/ /\ ~MakeDirsRaises(files, ScaffoldSeq[pair])
          /\ ~IsDir(dirs, ScaffoldSeq[pair])
          /\ MayFault
          /\ faults' = faults + 1
    /\ pc' = "raised"
    /\ UNCHANGED <<twiceFrame, dirs, pair, call, snap>>

\* return of the first invocation; the second one follows on the same arguments
TwiceReturnFirst ==
    /\ pc = "tw_return"
    /\ call = 1
    /\ call' = 2
    /\ snap' = dirs
    /\ pc' = "tw_call"
    /\ UNCHANGED <<twiceFrame, dirs, pair, faults>>

\* return of the second invocation
TwiceReturnSecond ==
    /\ pc = "tw_return"
    /\ call = 2
    /\ pc' = "tw_done"
    /\ UNCHANGED <<twiceFrame, dirs, pair, faults, call, snap>>

NextTwice ==
    \/ TwiceCall
    \/ TwiceMakeDir
    \/ TwiceMakeDirRaise
    \/ TwiceReturnFirst
    \/ TwiceReturnSecond

SpecTwice == InitTwice /\ [][NextTwice]_vars

\* C12 (idempotent scaffolding): once a first call of create_directory_structure
\* has returned, a second call with the same destination root and class list
\* raises nothing, and at every step of it and at its return the destination
\* holds the directories it held after the first call and every file it held
\* before, with its content.
Idempotent ==
    call = 2 =>
        /\ pc # "raised"
        /\ dirs = snap
        /\ files = files0

\* the second call has returned; the first one made directories for two classes
\* in a destination that held a file
IdempotentWitness ==
    /\ pc = "tw_done"
    /\ NumClasses = 2
    /\ dirs # dirs0
    /\ DOMAIN files # {}

====
